---- MODULE Spec2Model ----
(***************************************************************************)
(* A model of the static site generator's Markdown-to-HTML core:           *)
(*   src/src/htmlnode.py         HTMLNode / LeafNode / ParentNode          *)
(*   src/src/inline_markdown.py  inline lexer, block classifier, document  *)
(*                               conversion, title extraction              *)
(*   src/src/main.py             text_node_to_html_node                    *)
(*                                                                         *)
(* Python strings are modelled as sequences of one-character strings, so   *)
(* that splitting, searching and concatenation are computed, not assumed.  *)
(* An Optional value is None (the empty sequence) or Some(x) (<<x>>).      *)
(***************************************************************************)
EXTENDS Integers, Sequences, FiniteSets, TLC

VARIABLES
    tree,        \* the HTML node to_html / props_to_html is called on
    rendered,    \* outcome of tree.to_html()
    attrs,       \* outcome of tree.props_to_html()
    old_nodes,   \* split_nodes_delimiter: argument old_nodes
    delimiter,   \* split_nodes_delimiter: argument delimiter
    text_type,   \* split_nodes_delimiter: argument text_type
    new_nodes,   \* split_nodes_delimiter: outcome
    text,        \* text_to_textnodes: argument text
    nodes,       \* text_to_textnodes: local variable nodes
    stage,       \* text_to_textnodes: number of passes done, or "raised"
    block,       \* block_to_block_type: argument block
    block_type,  \* block_to_block_type: outcome
    markdown,    \* markdown_to_html_node / extract_title: argument markdown
    blocks,      \* markdown_to_html_node: local variable blocks
    doc_children, \* markdown_to_html_node: local variable children
    html,        \* markdown_to_html_node: outcome
    title,       \* extract_title: outcome
    step         \* markdown_to_html_node: where the call is

vars == <<tree, rendered, attrs, old_nodes, delimiter, text_type, new_nodes,
          text, nodes, stage, block, block_type, markdown, blocks,
          doc_children, html, title, step>>

htmlVars  == <<tree, rendered, attrs>>
splitVars == <<old_nodes, delimiter, text_type, new_nodes>>
lexVars   == <<text, nodes, stage>>
blockVars == <<block, block_type>>
docVars   == <<markdown, blocks, doc_children, html, title, step>>

(***************************************************************************)
(* Bounds of the model.                                                    *)
(***************************************************************************)
\* Largest number of nodes in an HTML tree.
MaxNodes == 4

(***************************************************************************)
(* Strings and optionals.                                                  *)
(***************************************************************************)
None == <<>>
Some(x) == <<x>>
IsNone(o) == o = <<>>
Get(o) == o[1]

\* The character ` (U+0060), which a TLA+ string literal cannot hold.
BACKTICK == "BACKTICK"

\* "".join(parts)
RECURSIVE Join(_)
Join(parts) ==
    IF parts = <<>> THEN <<>> ELSE Head(parts) \o Join(Tail(parts))

\* Outcome of a call: it returned a value, or raised an exception.
Pending == [status |-> "pending", out |-> <<>>, msg |-> ""]
Returned(s) == [status |-> "returned", out |-> s, msg |-> ""]
Raised(m) == [status |-> "raised", out |-> <<>>, msg |-> m]

(***************************************************************************)
(* src/src/htmlnode.py                                                     *)
(***************************************************************************)
LeafNode(tag, value, props) ==
    [kind |-> "leaf", tag |-> tag, value |-> value, children |-> None,
     props |-> props]

ParentNode(tag, children, props) ==
    [kind |-> "parent", tag |-> tag, value |-> None, children |-> children,
     props |-> props]

\* f' {key}="{value}"'
AttrText(p) == <<" ">> \o p.key \o <<"=", "\"">> \o p.value \o <<"\"">>

\* Mutant: the attributes are emitted last-inserted first.
props_to_html_reversed(node) ==
    IF IsNone(node.props) \/ Get(node.props) = <<>>
    THEN <<>>
    ELSE LET ps == Get(node.props)
         IN  Join([i \in 1..Len(ps) |-> AttrText(ps[Len(ps) + 1 - i])])

props_to_html(node) ==
    IF IsNone(node.props) \/ Get(node.props) = <<>>
    THEN <<>>
    ELSE LET ps == Get(node.props)
         IN  Join([i \in 1..Len(ps) |-> AttrText(ps[i])])

IMG == <<"i", "m", "g">>

\* Mutant: an untagged leaf is returned before its value is looked at.
LeafNode_to_html_tagfirst(node) ==
    IF IsNone(node.tag) /\ IsNone(node.value)
    THEN Returned(<<>>)
    ELSE IF IsNone(node.value) /\ node.tag # Some(IMG)
    THEN Raised("LeafNode must have a value.")
    ELSE IF IsNone(node.tag)
    THEN Returned(Get(node.value))
    ELSE IF node.tag = Some(IMG)
    THEN Returned(<<"<">> \o Get(node.tag) \o props_to_html(node)
                  \o <<" ", "/", ">">>)
    ELSE Returned(<<"<">> \o Get(node.tag) \o props_to_html(node) \o <<">">>
                  \o Get(node.value)
                  \o <<"<", "/">> \o Get(node.tag) \o <<">">>)

LeafNode_to_html(node) ==
    IF IsNone(node.value) /\ node.tag # Some(IMG)
    THEN Raised("LeafNode must have a value.")
    ELSE IF IsNone(node.tag)
    THEN Returned(Get(node.value))
    ELSE IF node.tag = Some(IMG)
    THEN Returned(<<"<">> \o Get(node.tag) \o props_to_html(node)
                  \o <<" ", "/", ">">>)
    ELSE Returned(<<"<">> \o Get(node.tag) \o props_to_html(node) \o <<">">>
                  \o Get(node.value)
                  \o <<"<", "/">> \o Get(node.tag) \o <<">">>)

\* "".join(child.to_html() for child in children): the children are rendered
\* in order and the first exception ends the join.
RECURSIVE JoinRendered(_, _)
JoinRendered(results, acc) ==
    IF results = <<>> THEN Returned(acc)
    ELSE IF Head(results).status = "raised" THEN Head(results)
    ELSE JoinRendered(Tail(results), acc \o Head(results).out)

\* Mutant: the children are joined last to first.
JoinChildren_reversed(results) ==
    JoinRendered([i \in 1..Len(results) |-> results[Len(results) + 1 - i]],
                 <<>>)

JoinChildren(results) == JoinRendered(results, <<>>)

\* Mutant: a missing children list is rendered as an empty one.
ParentChildren_lenient(node) ==
    IF IsNone(node.children) THEN Some(<<>>) ELSE node.children

\* self.children as ParentNode.to_html reads it
ParentChildren(node) == node.children

RECURSIVE to_html(_)
ParentNode_to_html(node) ==
    IF IsNone(node.tag)
    THEN Raised("ParentNode must have a tag.")
    ELSE IF IsNone(ParentChildren(node))
    THEN Raised("ParentNode must have children.")
    ELSE LET cs == Get(ParentChildren(node))
             children_html ==
                 JoinChildren([i \in 1..Len(cs) |-> to_html(cs[i])])
         IN  IF children_html.status = "raised"
             THEN children_html
             ELSE Returned(<<"<">> \o Get(node.tag) \o props_to_html(node)
                           \o <<">">> \o children_html.out
                           \o <<"<", "/">> \o Get(node.tag) \o <<">">>)

to_html(node) ==
    IF node.kind = "leaf" THEN LeafNode_to_html(node)
    ELSE ParentNode_to_html(node)

(***************************************************************************)
(* Inputs of the HTML node model: every leaf over small tag, value and     *)
(* attribute sets, and every tree of at most MaxNodes nodes over a few     *)
(* leaves and branch headers.                                              *)
(***************************************************************************)
B    == <<"b">>
A    == <<"a">>
DIV  == <<"d", "i", "v">>
SPAN == <<"s", "p", "a", "n">>

HREF   == [key |-> <<"h", "r", "e", "f">>, value |-> <<"u">>]
TARGET == [key |-> <<"t", "a", "r", "g", "e", "t">>, value |-> <<"_", "b">>]

PropsPool ==
    {None, Some(<<>>), Some(<<HREF>>), Some(<<TARGET>>),
     Some(<<HREF, TARGET>>), Some(<<TARGET, HREF>>)}

LeafPool ==
    {LeafNode(t, v, p) :
        t \in {None, Some(IMG), Some(B), Some(SPAN)},
        v \in {None, Some(<<>>), Some(<<"x">>), Some(<<"x", "<", "y">>)},
        p \in PropsPool}

TreeLeaves ==
    {LeafNode(None, Some(<<"x">>), None),
     LeafNode(Some(A), Some(<<"y">>), Some(<<HREF>>)),
     LeafNode(Some(SPAN), None, None)}

\* (tag, props) of the branches
ParentHeaders ==
    {<<None, None>>, <<Some(DIV), Some(<<TARGET, HREF>>)>>}

\* Sequences of m trees with n nodes in all; sized[k] is the set of trees
\* of k nodes, for k < n + 1.
RECURSIVE Forests(_, _, _)
Forests(sized, n, m) ==
    IF m = 0 THEN (IF n = 0 THEN {<<>>} ELSE {})
    ELSE UNION {{<<t>> \o f : t \in sized[k], f \in Forests(sized, n - k, m - 1)}
                : k \in 1..n}

TreesOfSize(sized, n) ==
    IF n = 1
    THEN TreeLeaves
         \cup {ParentNode(h[1], c, h[2]) :
                 h \in ParentHeaders, c \in {None, Some(<<>>)}}
    ELSE {ParentNode(h[1], Some(f), h[2]) :
            h \in ParentHeaders,
            f \in UNION {Forests(sized, n - 1, m) : m \in 1..(n - 1)}}

RECURSIVE SizedTrees(_, _)
SizedTrees(sized, n) ==
    IF n > MaxNodes THEN sized
    ELSE SizedTrees(sized @@ (n :> TreesOfSize(sized, n)), n + 1)

Trees ==
    LET sized == SizedTrees(<<>>, 1)
    IN  UNION {sized[n] : n \in 1..MaxNodes}

\* The node itself and every node below it.
RECURSIVE Subtrees(_)
Subtrees(node) ==
    {node} \cup
    (IF node.kind = "parent" /\ ~IsNone(node.children)
     THEN UNION {Subtrees(Get(node.children)[i]) :
                    i \in 1..Len(Get(node.children))}
     ELSE {})

RECURSIVE Depth(_)
Depth(node) ==
    IF node.kind = "parent" /\ ~IsNone(node.children)
       /\ Get(node.children) # <<>>
    THEN LET cs == Get(node.children)
             d == [i \in 1..Len(cs) |-> Depth(cs[i])]
         IN  1 + CHOOSE m \in {d[i] : i \in 1..Len(cs)} :
                    \A i \in 1..Len(cs) : d[i] <= m
    ELSE 0

(***************************************************************************)
(* The HTML node model as a state machine: a node is built, then rendered. *)
(***************************************************************************)
InitHtml ==
    /\ tree \in LeafPool \cup Trees
    /\ rendered = Pending
    /\ attrs = Pending
    /\ old_nodes = <<>>
    /\ delimiter = <<>>
    /\ text_type = "text"
    /\ new_nodes = Pending
    /\ text = <<>>
    /\ nodes = <<>>
    /\ stage = "idle"
    /\ block = <<>>
    /\ block_type = "none"
    /\ markdown = <<>>
    /\ blocks = <<>>
    /\ doc_children = <<>>
    /\ html = Pending
    /\ title = Pending
    /\ step = "idle"

\* tree.to_html()
ToHtml ==
    /\ rendered' = to_html(tree)
    /\ UNCHANGED <<tree, attrs, splitVars, lexVars, blockVars, docVars>>

\* tree.props_to_html()
PropsToHtml ==
    /\ attrs' = Returned(props_to_html(tree))
    /\ UNCHANGED <<tree, rendered, splitVars, lexVars, blockVars, docVars>>

NextHtml == ToHtml \/ PropsToHtml

SpecHtml == InitHtml /\ [][NextHtml]_vars

(***************************************************************************)
(* Python string operations used by src/src/inline_markdown.py.            *)
(***************************************************************************)
\* s[i:].startswith(p), positions counted from 1
OccursAt(s, p, i) ==
    /\ i >= 1
    /\ i + Len(p) - 1 <= Len(s)
    /\ SubSeq(s, i, i + Len(p) - 1) = p

\* s.find(p, from), positions counted from 1, 0 when p does not occur
Find(s, p, from) ==
    IF \E i \in from..Len(s) : OccursAt(s, p, i)
    THEN CHOOSE i \in from..Len(s) :
            /\ OccursAt(s, p, i)
            /\ \A j \in from..(i - 1) : ~OccursAt(s, p, j)
    ELSE 0

\* p in s
Contains(s, p) == Find(s, p, 1) # 0

\* s.startswith(p)
StartsWith(s, p) == OccursAt(s, p, 1)

\* s.endswith(p)
EndsWith(s, p) == Len(p) <= Len(s) /\ OccursAt(s, p, Len(s) - Len(p) + 1)

\* s.split(d) for a non-empty d: cut at the leftmost occurrences, which do
\* not overlap.
RECURSIVE Split(_, _)
Split(s, d) ==
    LET i == Find(s, d, 1)
    IN  IF i = 0 THEN <<s>>
        ELSE <<SubSeq(s, 1, i - 1)>> \o Split(SubSeq(s, i + Len(d), Len(s)), d)

\* s.split(d, 1)
SplitOnce(s, d) ==
    LET i == Find(s, d, 1)
    IN  IF i = 0 THEN <<s>>
        ELSE <<SubSeq(s, 1, i - 1), SubSeq(s, i + Len(d), Len(s))>>

(***************************************************************************)
(* TextNode and TextType (textnode.py): a text, its type and an optional   *)
(* url, compared by value.                                                 *)
(***************************************************************************)
TEXT   == "text"
BOLD   == "bold"
ITALIC == "italic"
CODE   == "code"
LINK   == "link"
IMAGE  == "image"

TextNode(t, type, url) == [text |-> t, text_type |-> type, url |-> url]

(***************************************************************************)
(* src/src/inline_markdown.py: extract_markdown_images / _links            *)
(***************************************************************************)
\* The least position from `from` on that holds one of the characters `stop`,
\* 0 when there is none: where a run [^...]* of the pattern ends.
RunEnd(s, from, stop) ==
    IF \E j \in from..Len(s) : s[j] \in stop
    THEN CHOOSE j \in from..Len(s) :
            /\ s[j] \in stop
            /\ \A k \in from..(j - 1) : s[k] \notin stop
    ELSE 0

NoMatch == [found |-> FALSE, group1 |-> <<>>, group2 |-> <<>>, last |-> 0]

\* \[([^\[\]]*)\]\(([^\(\)]*)\) matched with its '[' at position i. Each run
\* excludes the character that must follow it, so the match is unique.
BracketsAt(s, i) ==
    IF ~(i >= 1 /\ i <= Len(s) /\ s[i] = "[") THEN NoMatch
    ELSE LET j == RunEnd(s, i + 1, {"[", "]"})
         IN  IF j = 0 \/ s[j] # "]" \/ j + 1 > Len(s) \/ s[j + 1] # "("
             THEN NoMatch
             ELSE LET k == RunEnd(s, j + 2, {"(", ")"})
                  IN  IF k = 0 \/ s[k] # ")" THEN NoMatch
                      ELSE [found |-> TRUE,
                            group1 |-> SubSeq(s, i + 1, j - 1),
                            group2 |-> SubSeq(s, j + 2, k - 1),
                            last |-> k]

\* r"!\[([^\[\]]*)\]\(([^\(\)]*)\)" matched at position i
ImagePatternAt(s, i) ==
    IF i <= Len(s) /\ s[i] = "!" THEN BracketsAt(s, i + 1) ELSE NoMatch

\* Mutant: the pattern without its lookbehind (the one commented out).
LinkPatternAt_nolookbehind(s, i) == BracketsAt(s, i)

\* r"(?<!!)\[([^\[\]]*)\]\(([^\(\)]*)\)" matched at position i
LinkPatternAt(s, i) ==
    IF i > 1 /\ s[i - 1] = "!" THEN NoMatch ELSE BracketsAt(s, i)

\* re.findall: the matches from left to right, each search resuming after the
\* previous match; a match is the tuple of its two groups.
RECURSIVE FindAllImages(_, _)
FindAllImages(s, i) ==
    IF i > Len(s) THEN <<>>
    ELSE LET m == ImagePatternAt(s, i)
         IN  IF m.found
             THEN << <<m.group1, m.group2>> >> \o FindAllImages(s, m.last + 1)
             ELSE FindAllImages(s, i + 1)

RECURSIVE FindAllLinks(_, _)
FindAllLinks(s, i) ==
    IF i > Len(s) THEN <<>>
    ELSE LET m == LinkPatternAt(s, i)
         IN  IF m.found
             THEN << <<m.group1, m.group2>> >> \o FindAllLinks(s, m.last + 1)
             ELSE FindAllLinks(s, i + 1)

extract_markdown_images(s) == FindAllImages(s, 1)

extract_markdown_links(s) == FindAllLinks(s, 1)

(***************************************************************************)
(* src/src/inline_markdown.py: split_nodes_delimiter                       *)
(***************************************************************************)
\* Mutant: every node is split, whatever its type.
IsTextNode_always(node) == TRUE

\* node.text_type == TextType.TEXT, the test that opens each pass's loop body
IsTextNode(node) == node.text_type = TEXT

\* Mutant: the shortcut for a text without the delimiter is gone.
DelimiterAbsent_never(d, s) == FALSE

\* delimiter not in node.text
DelimiterAbsent(d, s) == ~Contains(s, d)

\* Mutant: an odd number of parts is taken for an unclosed delimiter.
UnclosedDelimiter_odd(parts) == Len(parts) % 2 = 1

\* len(parts) % 2 == 0
UnclosedDelimiter(parts) == Len(parts) % 2 = 0

\* Mutant: the two branches of the parity test are exchanged.
PartType_swapped(i, type) == IF i % 2 = 0 THEN type ELSE TEXT

\* The type of parts[i], i counted from 0: TEXT at even i, text_type at odd i
PartType(i, type) == IF i % 2 = 0 THEN TEXT ELSE type

\* Mutant: empty parts are appended too.
PartNodes_keepempty(parts, type) ==
    [k \in 1..Len(parts) |-> TextNode(parts[k], PartType(k - 1, type), None)]

\* for i, part in enumerate(parts): the nodes appended, empty parts skipped
RECURSIVE PartNodesFrom(_, _, _)
PartNodesFrom(parts, k, type) ==
    IF k > Len(parts) THEN <<>>
    ELSE (IF parts[k] # <<>>
          THEN <<TextNode(parts[k], PartType(k - 1, type), None)>>
          ELSE <<>>)
         \o PartNodesFrom(parts, k + 1, type)

\* Mutant: the parts between an opening and a closing delimiter are dropped.
PartNodes_plainonly(parts, type) ==
    SelectSeq(PartNodes_keepempty(parts, type),
              LAMBDA n : n.text_type = TEXT /\ n.text # <<>>)

PartNodes(parts, type) == PartNodesFrom(parts, 1, type)

UnclosedError(d) ==
    [status |-> "raised", out |-> d,
     msg |-> "Invalid markdown syntax: unclosed delimiter"]

\* The loop over old_nodes from index k on, new_nodes being acc so far.
RECURSIVE SplitDelimiterLoop(_, _, _, _, _)
SplitDelimiterLoop(old, k, acc, d, type) ==
    IF k > Len(old) THEN Returned(acc)
    ELSE LET node == old[k]
         IN  IF ~IsTextNode(node)
             THEN SplitDelimiterLoop(old, k + 1, Append(acc, node), d, type)
             ELSE IF DelimiterAbsent(d, node.text)
             THEN SplitDelimiterLoop(old, k + 1, Append(acc, node), d, type)
             ELSE LET parts == Split(node.text, d)
                  IN  IF UnclosedDelimiter(parts)
                      THEN UnclosedError(d)
                      ELSE SplitDelimiterLoop(old, k + 1,
                               acc \o PartNodes(parts, type), d, type)

split_nodes_delimiter(old, d, type) == SplitDelimiterLoop(old, 1, <<>>, d, type)

(***************************************************************************)
(* src/src/inline_markdown.py: split_nodes_image / split_nodes_link        *)
(***************************************************************************)
\* "![" + alt_text + "](" + image_url + ")"
ImageMarkdown(alt, url) == <<"!", "[">> \o alt \o <<"]", "(">> \o url \o <<")">>

\* "[" + anchor_text + "](" + link_url + ")"
LinkMarkdown(anchor, url) == <<"[">> \o anchor \o <<"]", "(">> \o url \o <<")">>

\* Mutant: the url and the alt text change places.
ImageNode_swapped(alt, url) == TextNode(url, IMAGE, Some(alt))

\* TextNode(alt_text, TextType.IMAGE, image_url)
ImageNode(alt, url) == TextNode(alt, IMAGE, Some(url))

\* TextNode(anchor_text, TextType.LINK, link_url)
LinkNode(anchor, url) == TextNode(anchor, LINK, Some(url))

\* The loop over the images of one node from the k-th on: acc is what has
\* been appended for the node, current_text what is left of its text.
RECURSIVE ImageSections(_, _, _, _)
ImageSections(images, k, current_text, acc) ==
    IF k > Len(images)
    THEN (IF current_text # <<>>
          THEN Append(acc, TextNode(current_text, TEXT, None))
          ELSE acc)
    ELSE LET alt == images[k][1]
             url == images[k][2]
             sections == SplitOnce(current_text, ImageMarkdown(alt, url))
             before == IF sections[1] # <<>>
                       THEN <<TextNode(sections[1], TEXT, None)>>
                       ELSE <<>>
         IN  ImageSections(images, k + 1,
                 IF Len(sections) > 1 THEN sections[2] ELSE <<>>,
                 acc \o before \o <<ImageNode(alt, url)>>)

RECURSIVE SplitImageLoop(_, _, _)
SplitImageLoop(old, k, acc) ==
    IF k > Len(old) THEN acc
    ELSE LET node == old[k]
             images == extract_markdown_images(node.text)
         IN  IF ~IsTextNode(node)
             THEN SplitImageLoop(old, k + 1, Append(acc, node))
             ELSE IF images = <<>>
             THEN SplitImageLoop(old, k + 1, Append(acc, node))
             ELSE SplitImageLoop(old, k + 1,
                      acc \o ImageSections(images, 1, node.text, <<>>))

split_nodes_image(old) == SplitImageLoop(old, 1, <<>>)

RECURSIVE LinkSections(_, _, _, _)
LinkSections(links, k, current_text, acc) ==
    IF k > Len(links)
    THEN (IF current_text # <<>>
          THEN Append(acc, TextNode(current_text, TEXT, None))
          ELSE acc)
    ELSE LET anchor == links[k][1]
             url == links[k][2]
             sections == SplitOnce(current_text, LinkMarkdown(anchor, url))
             before == IF sections[1] # <<>>
                       THEN <<TextNode(sections[1], TEXT, None)>>
                       ELSE <<>>
         IN  LinkSections(links, k + 1,
                 IF Len(sections) > 1 THEN sections[2] ELSE <<>>,
                 acc \o before \o <<LinkNode(anchor, url)>>)

RECURSIVE SplitLinkLoop(_, _, _)
SplitLinkLoop(old, k, acc) ==
    IF k > Len(old) THEN acc
    ELSE LET node == old[k]
             links == extract_markdown_links(node.text)
         IN  IF ~IsTextNode(node)
             THEN SplitLinkLoop(old, k + 1, Append(acc, node))
             ELSE IF links = <<>>
             THEN SplitLinkLoop(old, k + 1, Append(acc, node))
             ELSE SplitLinkLoop(old, k + 1,
                      acc \o LinkSections(links, 1, node.text, <<>>))

split_nodes_link(old) == SplitLinkLoop(old, 1, <<>>)

(***************************************************************************)
(* split_nodes_delimiter as a state machine: it is called on a list of     *)
(* nodes with one of the delimiters and one of the types the lexer uses.   *)
(***************************************************************************)
\* Longest text of the node under test, in characters.
MaxLen == 5

RECURSIVE StringsUpTo(_, _)
StringsUpTo(chars, n) ==
    IF n = 0 THEN {<<>>}
    ELSE LET shorter == StringsUpTo(chars, n - 1)
         IN  shorter \cup {Append(t, c) : t \in shorter, c \in chars}

Delimiters == {<<"*", "*">>, <<"_">>, <<BACKTICK>>}

SplitTexts == StringsUpTo({"a", "*", "_", BACKTICK}, MaxLen)

\* A typed node whose text holds every delimiter, and a TEXT node in which
\* every delimiter is left open.
TypedNeighbour == TextNode(<<"*", "*", "_", BACKTICK>>, BOLD, None)
OpenNeighbour  == TextNode(<<"a", "*", "*", "_", BACKTICK>>, TEXT, None)
PlainNeighbour == TextNode(<<"b">>, TEXT, None)

SplitInputs ==
    UNION {{<<TextNode(t, TEXT, None)>>,
            <<TypedNeighbour, TextNode(t, TEXT, None)>>,
            <<TextNode(t, TEXT, None), PlainNeighbour, TypedNeighbour>>,
            <<TextNode(t, CODE, None), PlainNeighbour>>,
            <<PlainNeighbour, TextNode(t, TEXT, None), OpenNeighbour>>}
           : t \in SplitTexts}

InitSplit ==
    /\ old_nodes \in SplitInputs
    /\ delimiter \in Delimiters
    /\ text_type \in {BOLD, ITALIC, CODE}
    /\ new_nodes = Pending
    /\ tree = LeafNode(None, None, None)
    /\ rendered = Pending
    /\ attrs = Pending
    /\ text = <<>>
    /\ nodes = <<>>
    /\ stage = "idle"
    /\ block = <<>>
    /\ block_type = "none"
    /\ markdown = <<>>
    /\ blocks = <<>>
    /\ doc_children = <<>>
    /\ html = Pending
    /\ title = Pending
    /\ step = "idle"

\* split_nodes_delimiter(old_nodes, delimiter, text_type)
SplitNodesDelimiter ==
    /\ new_nodes' = split_nodes_delimiter(old_nodes, delimiter, text_type)
    /\ UNCHANGED <<old_nodes, delimiter, text_type, htmlVars, lexVars,
                   blockVars, docVars>>

NextSplit == SplitNodesDelimiter

SpecSplit == InitSplit /\ [][NextSplit]_vars

(***************************************************************************)
(* text_to_textnodes as a state machine: one step per pass. stage names    *)
(* the last pass done; "raised" is the ValueError of a delimiter pass.     *)
(***************************************************************************)
\* Largest number of pieces a lexed text is put together from.
MaxPieces == 4
\* Longest alt/anchor text and longest url of the one-pattern texts.
MaxField == 2

LexPieces ==
    {<<"a">>, <<"*">>, <<"*", "*">>, <<"_">>, <<BACKTICK>>, <<"!">>, <<"[">>,
     <<"[", "a", "]", "(", "u", ")">>}

RECURSIVE PiecedTexts(_)
PiecedTexts(n) ==
    IF n = 0 THEN {<<>>}
    ELSE LET shorter == PiecedTexts(n - 1)
         IN  shorter \cup {t \o q : t \in shorter, q \in LexPieces}

\* Alt/anchor texts hold no bracket, urls no parenthesis.
AltTexts == StringsUpTo({"a", "_", "*", "("}, MaxField)
UrlTexts == StringsUpTo({"a", BACKTICK, "[", "!"}, MaxField)

PatternTexts ==
    {ImageMarkdown(a, u) : a \in AltTexts, u \in UrlTexts}
    \cup {LinkMarkdown(a, u) : a \in AltTexts, u \in UrlTexts}

LexTexts == PiecedTexts(MaxPieces) \cup PatternTexts

\* nodes = [TextNode(text, TextType.TEXT)]
InitLex ==
    /\ text \in LexTexts
    /\ nodes = <<TextNode(text, TEXT, None)>>
    /\ stage = "start"
    /\ old_nodes = <<>>
    /\ delimiter = <<>>
    /\ text_type = TEXT
    /\ new_nodes = Pending
    /\ tree = LeafNode(None, None, None)
    /\ rendered = Pending
    /\ attrs = Pending
    /\ block = <<>>
    /\ block_type = "none"
    /\ markdown = <<>>
    /\ blocks = <<>>
    /\ doc_children = <<>>
    /\ html = Pending
    /\ title = Pending
    /\ step = "idle"

\* nodes = split_nodes_delimiter(nodes, d, type), or its ValueError
DelimiterPass(from, to, d, type) ==
    /\ stage = from
    /\ LET r == split_nodes_delimiter(nodes, d, type)
       IN  IF r.status = "raised"
           THEN stage' = "raised" /\ nodes' = <<>>
           ELSE stage' = to /\ nodes' = r.out
    /\ UNCHANGED <<text, htmlVars, splitVars, blockVars, docVars>>

BoldPass == DelimiterPass("start", "bold", <<"*", "*">>, BOLD)

ItalicPass == DelimiterPass("bold", "italic", <<"_">>, ITALIC)

CodePass == DelimiterPass("italic", "code", <<BACKTICK>>, CODE)

\* nodes = split_nodes_image(nodes)
ImagePass ==
    /\ stage = "code"
    /\ stage' = "image"
    /\ nodes' = split_nodes_image(nodes)
    /\ UNCHANGED <<text, htmlVars, splitVars, blockVars, docVars>>

\* nodes = split_nodes_link(nodes); return nodes
LinkPass ==
    /\ stage = "image"
    /\ stage' = "done"
    /\ nodes' = split_nodes_link(nodes)
    /\ UNCHANGED <<text, htmlVars, splitVars, blockVars, docVars>>

NextLex == BoldPass \/ ItalicPass \/ CodePass \/ ImagePass \/ LinkPass

SpecLex == InitLex /\ [][NextLex]_vars

(***************************************************************************)
(* split_nodes_link as a state machine: it is called on a single TEXT      *)
(* node, without the image pass before it.                                 *)
(***************************************************************************)
InitLink ==
    /\ text \in LexTexts
    /\ nodes = <<TextNode(text, TEXT, None)>>
    /\ stage = "link"
    /\ old_nodes = <<>>
    /\ delimiter = <<>>
    /\ text_type = TEXT
    /\ new_nodes = Pending
    /\ tree = LeafNode(None, None, None)
    /\ rendered = Pending
    /\ attrs = Pending
    /\ block = <<>>
    /\ block_type = "none"
    /\ markdown = <<>>
    /\ blocks = <<>>
    /\ doc_children = <<>>
    /\ html = Pending
    /\ title = Pending
    /\ step = "idle"

\* nodes = split_nodes_link(nodes)
SplitNodesLink ==
    /\ stage = "link"
    /\ nodes' = split_nodes_link(nodes)
    /\ stage' = "linked"
    /\ UNCHANGED <<text, htmlVars, splitVars, blockVars, docVars>>

NextLink == SplitNodesLink

SpecLink == InitLink /\ [][NextLink]_vars

(***************************************************************************)
(* src/src/inline_markdown.py: block_to_block_type                         *)
(***************************************************************************)
\* The newline character
NL == "\n"

\* The decimal digits of n > 0, as str(n) writes them
RECURSIVE Decimal(_)
Decimal(n) ==
    LET digit == <<"0", "1", "2", "3", "4", "5", "6", "7", "8", "9">>
    IN  (IF n >= 10 THEN Decimal(n \div 10) ELSE <<>>)
        \o <<digit[(n % 10) + 1]>>

\* heading_level: the loop that counts the leading '#' of lines[0]
RECURSIVE HeadingLevelFrom(_, _)
HeadingLevelFrom(line, k) ==
    IF k <= Len(line) /\ line[k] = "#"
    THEN 1 + HeadingLevelFrom(line, k + 1)
    ELSE 0

HeadingLevel(line) == HeadingLevelFrom(line, 1)

\* Mutant: the character after the '#' run is not looked at.
IsHeading_anyfollower(line) ==
    /\ StartsWith(line, <<"#">>)
    /\ LET heading_level == HeadingLevel(line)
       IN  heading_level <= 6 /\ heading_level > 0

\* The heading test on lines[0]
IsHeading(line) ==
    /\ StartsWith(line, <<"#">>)
    /\ LET heading_level == HeadingLevel(line)
       IN  /\ heading_level <= 6
           /\ heading_level > 0
           /\ Len(line) > heading_level
           /\ line[heading_level + 1] = " "

FENCE == <<BACKTICK, BACKTICK, BACKTICK>>

\* Mutant: only the end of the block is tested.
IsCode_endonly(b) == EndsWith(b, FENCE)

\* block.startswith("```") and block.endswith("```")
IsCode(b) == StartsWith(b, FENCE) /\ EndsWith(b, FENCE)

\* all(line.startswith("- ") or line.startswith("* ") for line in lines)
IsUnorderedList(lines) ==
    \A i \in 1..Len(lines) :
        StartsWith(lines[i], <<"-", " ">>) \/ StartsWith(lines[i], <<"*", " ">>)

\* Mutant: every line starts with the number of the first line.
IsOrderedList_unnumbered(lines) ==
    \A i \in 1..Len(lines) :
        StartsWith(lines[i], Decimal(1) \o <<".", " ">>)

\* is_ordered: lines[i] starts with f"{i + 1}. ", i counted from 0
IsOrderedList(lines) ==
    \A i \in 1..Len(lines) :
        StartsWith(lines[i], Decimal(i) \o <<".", " ">>)

\* all(line.startswith(">") for line in lines)
IsQuote(lines) == \A i \in 1..Len(lines) : StartsWith(lines[i], <<">">>)

block_to_block_type(b) ==
    LET lines == Split(b, <<NL>>)
    IN  IF IsHeading(lines[1]) THEN "heading"
        ELSE IF IsCode(b) THEN "code"
        ELSE IF IsUnorderedList(lines) THEN "unordered_list"
        ELSE IF IsOrderedList(lines) THEN "ordered_list"
        ELSE IF IsQuote(lines) THEN "quote"
        ELSE "paragraph"

(***************************************************************************)
(* block_to_block_type as a state machine: it is called on a block, a      *)
(* non-empty text without leading or trailing whitespace, as               *)
(* markdown_to_blocks produces them.                                       *)
(***************************************************************************)
\* Most lines of a block.
MaxLines == 3
\* Longest run of '#' a line starts with.
MaxHashes == 7

RECURSIVE Hashes(_)
Hashes(n) == IF n = 0 THEN <<>> ELSE <<"#">> \o Hashes(n - 1)

LinePrefixes ==
    {Hashes(n) : n \in 0..MaxHashes}
    \cup {<<"-", " ">>, <<"*", " ">>, <<"1", ".", " ">>, <<"2", ".", " ">>,
          <<">">>, FENCE}

LineBodies == {<<>>, <<"a">>, <<" ", "a">>, <<"a">> \o FENCE}

FirstLines == {p \o q : p \in LinePrefixes, q \in LineBodies}

LaterLines ==
    {<<"a">>, <<"#", " ", "a">>, <<"-", " ", "a">>, <<"*", " ", "a">>,
     <<"1", ".", " ", "a">>, <<"2", ".", " ", "a">>, <<"3", ".", " ", "a">>,
     <<">", "a">>, <<">">>, FENCE}

RECURSIVE LaterLinesUpTo(_)
LaterLinesUpTo(n) ==
    IF n = 0 THEN {<<>>}
    ELSE LET shorter == LaterLinesUpTo(n - 1)
         IN  shorter \cup {Append(ls, l) : ls \in shorter, l \in LaterLines}

\* "\n".join(lines)
RECURSIVE JoinLines(_)
JoinLines(lines) ==
    IF Len(lines) = 1 THEN lines[1]
    ELSE lines[1] \o <<NL>> \o JoinLines(Tail(lines))

\* stripped == block.strip() and stripped != ""
IsStripped(b) ==
    /\ b # <<>>
    /\ b[1] \notin {" ", NL}
    /\ b[Len(b)] \notin {" ", NL}

Blocks ==
    {b \in {JoinLines(<<first>> \o rest) :
               first \in FirstLines, rest \in LaterLinesUpTo(MaxLines - 1)} :
        IsStripped(b)}

InitBlock ==
    /\ block \in Blocks
    /\ block_type = "none"
    /\ old_nodes = <<>>
    /\ delimiter = <<>>
    /\ text_type = TEXT
    /\ new_nodes = Pending
    /\ tree = LeafNode(None, None, None)
    /\ rendered = Pending
    /\ attrs = Pending
    /\ text = <<>>
    /\ nodes = <<>>
    /\ stage = "idle"
    /\ markdown = <<>>
    /\ blocks = <<>>
    /\ doc_children = <<>>
    /\ html = Pending
    /\ title = Pending
    /\ step = "idle"

\* block_type = block_to_block_type(block)
BlockToBlockType ==
    /\ block_type' = block_to_block_type(block)
    /\ UNCHANGED <<block, htmlVars, splitVars, lexVars, docVars>>

NextBlock == BlockToBlockType

SpecBlock == InitBlock /\ [][NextBlock]_vars

(***************************************************************************)
(* src/src/inline_markdown.py: text_to_textnodes as a function of text     *)
(***************************************************************************)
\* The five passes in the order of the code; an exception of a delimiter
\* pass ends the call.
\* nodes = split_nodes_delimiter(nodes, d, type), nodes being the outcome of
\* the statements before it
ThenDelimiter(nodes_so_far, d, type) ==
    IF nodes_so_far.status = "raised" THEN nodes_so_far
    ELSE split_nodes_delimiter(nodes_so_far.out, d, type)

\* nodes = split_nodes_image(nodes); nodes = split_nodes_link(nodes)
ThenImagesAndLinks(nodes_so_far) ==
    IF nodes_so_far.status = "raised" THEN nodes_so_far
    ELSE Returned(split_nodes_link(split_nodes_image(nodes_so_far.out)))

text_to_textnodes(t) ==
    ThenImagesAndLinks(
        ThenDelimiter(
            ThenDelimiter(
                ThenDelimiter(Returned(<<TextNode(t, TEXT, None)>>),
                              <<"*", "*">>, BOLD),
                <<"_">>, ITALIC),
            <<BACKTICK>>, CODE))

(***************************************************************************)
(* src/src/main.py: text_node_to_html_node                                 *)
(***************************************************************************)
I_TAG    == <<"i">>
CODE_TAG == <<"c", "o", "d", "e">>

\* props={"href": text_node.url}
HrefProps(text_node) ==
    Some(<<[key |-> <<"h", "r", "e", "f">>, value |-> Get(text_node.url)]>>)

\* props={"src": text_node.url, "alt": text_node.text}
ImgProps(text_node) ==
    Some(<<[key |-> <<"s", "r", "c">>, value |-> Get(text_node.url)],
           [key |-> <<"a", "l", "t">>, value |-> text_node.text]>>)

\* Mutant: the image leaf is built without tag and value.
ImageLeaf_untagged(text_node) == LeafNode(None, None, ImgProps(text_node))

\* LeafNode(tag="img", value="", props=...)
ImageLeaf(text_node) == LeafNode(Some(IMG), Some(<<>>), ImgProps(text_node))

text_node_to_html_node(text_node) ==
    IF text_node.text_type = TEXT
    THEN Returned(LeafNode(None, Some(text_node.text), None))
    ELSE IF text_node.text_type = BOLD
    THEN Returned(LeafNode(Some(B), Some(text_node.text), None))
    ELSE IF text_node.text_type = ITALIC
    THEN Returned(LeafNode(Some(I_TAG), Some(text_node.text), None))
    ELSE IF text_node.text_type = CODE
    THEN Returned(LeafNode(Some(CODE_TAG), Some(text_node.text), None))
    ELSE IF text_node.text_type = LINK
    THEN Returned(LeafNode(Some(A), Some(text_node.text),
                           HrefProps(text_node)))
    ELSE IF text_node.text_type = IMAGE
    THEN Returned(ImageLeaf(text_node))
    ELSE Raised("Unsupported TextType")

(***************************************************************************)
(* src/src/inline_markdown.py: markdown_to_blocks, text_to_children,       *)
(* markdown_to_html_node                                                   *)
(***************************************************************************)
\* The characters str.strip() removes, among those a model text can hold.
Whitespace == {" ", NL, "\t", "\r", "\f"}

RECURSIVE LStrip(_)
LStrip(s) == IF s # <<>> /\ s[1] \in Whitespace THEN LStrip(Tail(s)) ELSE s

RECURSIVE RStrip(_)
RStrip(s) ==
    IF s # <<>> /\ s[Len(s)] \in Whitespace
    THEN RStrip(SubSeq(s, 1, Len(s) - 1))
    ELSE s

\* s.strip()
Strip(s) == RStrip(LStrip(s))

\* sep.join(parts)
RECURSIVE JoinWith(_, _)
JoinWith(parts, sep) ==
    IF parts = <<>> THEN <<>>
    ELSE IF Len(parts) = 1 THEN parts[1]
    ELSE parts[1] \o sep \o JoinWith(Tail(parts), sep)

\* Mutant: the blocks are kept as split, neither stripped nor filtered.
FilteredBlocks_unfiltered(bs, k, acc) == bs

\* for block in blocks: stripped = block.strip(); kept when not empty
RECURSIVE FilteredBlocks(_, _, _)
FilteredBlocks(bs, k, acc) ==
    IF k > Len(bs) THEN acc
    ELSE LET stripped == Strip(bs[k])
         IN  FilteredBlocks(bs, k + 1,
                 IF stripped # <<>> THEN Append(acc, stripped) ELSE acc)

markdown_to_blocks(md) == FilteredBlocks(Split(md, <<NL, NL>>), 1, <<>>)

\* for text_node in text_nodes: html_nodes.append(text_node_to_html_node(..))
RECURSIVE HtmlNodesLoop(_, _, _)
\* html_nodes.append(html_node), or the exception html_node stands for
HtmlNodesAppend(text_nodes, k, html_nodes, html_node) ==
    IF html_node.status = "raised" THEN html_node
    ELSE HtmlNodesLoop(text_nodes, k + 1, Append(html_nodes, html_node.out))

HtmlNodesLoop(text_nodes, k, html_nodes) ==
    IF k > Len(text_nodes) THEN Returned(html_nodes)
    ELSE HtmlNodesAppend(text_nodes, k, html_nodes,
                         text_node_to_html_node(text_nodes[k]))

\* The loop over text_nodes, text_nodes being the outcome of the lexer
HtmlNodes(text_nodes) ==
    IF text_nodes.status = "raised" THEN text_nodes
    ELSE HtmlNodesLoop(text_nodes.out, 1, <<>>)

text_to_children(t) == HtmlNodes(text_to_textnodes(t))

\* Mutant: an exception is swallowed, the node gets no children.
WrapChildren_swallowed(tag, children_nodes) ==
    IF children_nodes.status = "raised"
    THEN Returned(ParentNode(Some(tag), Some(<<>>), None))
    ELSE Returned(ParentNode(Some(tag), Some(children_nodes.out), None))

\* ParentNode(tag, children_nodes), or the exception raised while the
\* children were computed
WrapChildren(tag, children_nodes) ==
    IF children_nodes.status = "raised" THEN children_nodes
    ELSE Returned(ParentNode(Some(tag), Some(children_nodes.out), None))

\* ParentNode(tag, text_to_children(content))
InlineParent(tag, content) == WrapChildren(tag, text_to_children(content))

\* block_type == "heading"
HeadingNode(b) ==
    LET level   == HeadingLevel(b)
        content == Strip(SubSeq(b, level + 1, Len(b)))
    IN  InlineParent(<<"h">> \o Decimal(level), content)

PRE == <<"p", "r", "e">>

\* Mutant: the content is the lines joined, without the newline at its end.
CodeContent_nonewline(lines) ==
    JoinWith(SubSeq(lines, 2, Len(lines) - 1), <<NL>>)

\* code_content, from the lines of the block
CodeContent(lines) ==
    LET inner  == JoinWith(SubSeq(lines, 2, Len(lines) - 1), <<NL>>)
        first  == IF Len(lines) > 2 THEN inner ELSE <<>>
        second == IF first = <<>> /\ Len(lines) >= 2 THEN inner ELSE first
    IN  IF second # <<>> THEN second \o <<NL>> ELSE second

\* block_type == "code"
CodeNode(b) ==
    LET code_node == LeafNode(Some(CODE_TAG),
                              Some(CodeContent(Split(b, <<NL>>))), None)
    IN  Returned(ParentNode(Some(PRE), Some(<<code_node>>), None))

\* line[2:] if line.startswith(("- ", "* ")) else line
UnorderedItemText(line) ==
    IF StartsWith(line, <<"-", " ">>) \/ StartsWith(line, <<"*", " ">>)
    THEN SubSeq(line, 3, Len(line))
    ELSE line

\* line[dot_index + 2:] if ". " is found, else line
OrderedItemText(line) ==
    LET dot_index == Find(line, <<".", " ">>, 1)
    IN  IF dot_index # 0 THEN SubSeq(line, dot_index + 2, Len(line)) ELSE line

LI == <<"l", "i">>
UL == <<"u", "l">>
OL == <<"o", "l">>

\* for line in lines: list_items.append(ParentNode("li", ...))
RECURSIVE ListItemsLoop(_, _, _, _)
\* list_items.append(li_node), or the exception li_node stands for
ListItemsAppend(lines, k, list_items, ordered, li_node) ==
    IF li_node.status = "raised" THEN li_node
    ELSE ListItemsLoop(lines, k + 1, Append(list_items, li_node.out), ordered)

ListItemsLoop(lines, k, list_items, ordered) ==
    IF k > Len(lines) THEN Returned(list_items)
    ELSE ListItemsAppend(lines, k, list_items, ordered,
             InlineParent(LI, IF ordered THEN OrderedItemText(lines[k])
                              ELSE UnorderedItemText(lines[k])))

\* block_type == "unordered_list" / "ordered_list"
ListNode(b, tag, ordered) ==
    WrapChildren(tag, ListItemsLoop(Split(b, <<NL>>), 1, <<>>, ordered))

BLOCKQUOTE == <<"b", "l", "o", "c", "k", "q", "u", "o", "t", "e">>

\* line[1:].strip() if line.startswith(">") else line
QuoteLine(line) ==
    IF StartsWith(line, <<">">>) THEN Strip(Tail(line)) ELSE line

\* block_type == "quote"
QuoteNode(b) ==
    LET lines == Split(b, <<NL>>)
        quote_lines == [k \in 1..Len(lines) |-> QuoteLine(lines[k])]
    IN  InlineParent(BLOCKQUOTE, JoinWith(quote_lines, <<" ">>))

P == <<"p">>

\* paragraph
ParagraphNode(b) == InlineParent(P, JoinWith(Split(b, <<NL>>), <<" ">>))

\* One iteration of the loop over blocks: the node appended for block b, or
\* the exception that leaves the loop.
BlockNodeOfType(b, type) ==
    IF type = "heading" THEN HeadingNode(b)
    ELSE IF type = "code" THEN CodeNode(b)
    ELSE IF type = "unordered_list" THEN ListNode(b, UL, FALSE)
    ELSE IF type = "ordered_list" THEN ListNode(b, OL, TRUE)
    ELSE IF type = "quote" THEN QuoteNode(b)
    ELSE ParagraphNode(b)

BlockNode(b) == BlockNodeOfType(b, block_to_block_type(b))

(***************************************************************************)
(* markdown_to_html_node as a state machine: the document is split into    *)
(* blocks, the loop assembles one block per step, the div is returned and  *)
(* the caller renders it.                                                  *)
(***************************************************************************)
\* Most blocks of a document.
MaxBlocks == 2

DocBlocks ==
    {<<"a">>,
     <<"#", " ", "a">>,
     <<"#", "#", "#", "#", "#", "#", " ", "*", "*", "a", "*", "*">>,
     <<"#", "#", "#", "#", "#", "#", "#", " ", "a">>,
     <<"#", " ", "*", "*", "a">>,
     FENCE \o <<NL, "a", " ", BACKTICK, "b", NL>> \o FENCE,
     FENCE \o <<NL, "a", NL, "*", "*", "b", NL>> \o FENCE,
     FENCE \o <<NL>> \o FENCE,
     FENCE \o <<"a">> \o FENCE,
     FENCE \o <<NL, " ", NL>> \o FENCE,
     <<"-", " ", "a", NL, "*", " ", "_", "b", "_">>,
     <<"-", " ", "a", NL, "-", " ", "_", "b">>,
     <<"1", ".", " ", "a", NL, "2", ".", " ", "[", "a", "]", "(", "u", ")">>,
     <<"1", ".", " ", BACKTICK, "a", NL, "2", ".", " ", "b">>,
     <<"1", ".", " ", "a", NL, "1", ".", " ", "b">>,
     <<">", " ", "a", NL, ">", " ", " ", "*", "*", "b", "*", "*">>,
     <<">", " ", "*", "*", "a", NL, ">", " ", "b", "*", "*">>,
     <<">", " ", "_", "a">>,
     <<"*", "*", "a", NL, "b", "*", "*">>,
     <<"a", " ", BACKTICK, "b">>,
     <<"*", "*", "*", "*">>,
     <<"!", "[", "a", "]", "(", "u", ")">>,
     <<"-", " ", "*", "*", "a", NL, "-", " ", "b", "*", "*">>}

RECURSIVE BlockSeqs(_)
BlockSeqs(n) ==
    IF n = 0 THEN {<<>>}
    ELSE LET shorter == BlockSeqs(n - 1)
         IN  shorter \cup {Append(bs, b) : bs \in shorter, b \in DocBlocks}

\* What a document has before its first block, between blocks, after the last.
Layouts ==
    {[lead |-> <<>>, sep |-> <<NL, NL>>, trail |-> <<>>],
     [lead |-> <<" ", NL>>, sep |-> <<NL, NL, NL>>, trail |-> <<NL>>],
     [lead |-> <<NL, NL>>, sep |-> <<NL, NL, " ", NL, NL>>, trail |-> <<" ">>]}

Documents ==
    {l.lead \o JoinWith(bs, l.sep) \o l.trail :
        bs \in BlockSeqs(MaxBlocks), l \in Layouts}

InitDoc ==
    /\ markdown \in Documents
    /\ blocks = <<>>
    /\ doc_children = <<>>
    /\ html = Pending
    /\ title = Pending
    /\ step = "start"
    /\ tree = LeafNode(None, None, None)
    /\ rendered = Pending
    /\ attrs = Pending
    /\ old_nodes = <<>>
    /\ delimiter = <<>>
    /\ text_type = TEXT
    /\ new_nodes = Pending
    /\ text = <<>>
    /\ nodes = <<>>
    /\ stage = "idle"
    /\ block = <<>>
    /\ block_type = "none"

\* blocks = markdown_to_blocks(markdown); children = []
MarkdownToBlocks ==
    /\ step = "start"
    /\ blocks' = markdown_to_blocks(markdown)
    /\ step' = "loop"
    /\ UNCHANGED <<markdown, doc_children, html, title, htmlVars, splitVars,
                   lexVars, blockVars>>

\* children.append(html_node), or the exception html_node stands for, which
\* ends the call
AppendOrRaise(html_node) ==
    IF html_node.status = "raised"
    THEN /\ html' = html_node
         /\ step' = "raised"
         /\ UNCHANGED doc_children
    ELSE /\ doc_children' = Append(doc_children, html_node.out)
         /\ UNCHANGED <<html, step>>

\* for block in blocks: one iteration
AssembleBlock ==
    /\ step = "loop"
    /\ Len(doc_children) < Len(blocks)
    /\ AppendOrRaise(BlockNode(blocks[Len(doc_children) + 1]))
    /\ UNCHANGED <<markdown, blocks, title, htmlVars, splitVars, lexVars,
                   blockVars>>

\* return ParentNode("div", children)
ReturnDiv ==
    /\ step = "loop"
    /\ Len(doc_children) = Len(blocks)
    /\ html' = Returned(ParentNode(Some(DIV), Some(doc_children), None))
    /\ step' = "returned"
    /\ UNCHANGED <<markdown, blocks, doc_children, title, htmlVars, splitVars,
                   lexVars, blockVars>>

\* The caller's html_node.to_html() (main.py, generate_page)
RenderDiv ==
    /\ step = "returned"
    /\ tree' = html.out
    /\ rendered' = to_html(html.out)
    /\ step' = "rendered"
    /\ UNCHANGED <<attrs, markdown, blocks, doc_children, html, title,
                   splitVars, lexVars, blockVars>>

NextDoc == MarkdownToBlocks \/ AssembleBlock \/ ReturnDiv \/ RenderDiv

SpecDoc == InitDoc /\ [][NextDoc]_vars

(***************************************************************************)
(* extract_title. main.py imports it from inline_markdown, but the file    *)
(* under src/ does not hold it: it is modelled from the specification and  *)
(* from src/src/test_extract_title.py.                                     *)
(***************************************************************************)
\* Mutant: any line that starts with '#' is taken as the title line.
IsTitleLine_anyhash(stripped) == StartsWith(stripped, <<"#">>)

\* The stripped line is a single '#' followed by a space.
IsTitleLine(stripped) == StartsWith(stripped, <<"#", " ">>)

\* Mutant: a document without a title line gets the empty title.
NoTitle_default == Returned(<<>>)

\* raise Exception("No h1 header found in markdown")
NoTitle == Raised("No h1 header found in markdown")

\* The scan over the lines from line k on.
RECURSIVE TitleLoop(_, _)
TitleLoop(lines, k) ==
    IF k > Len(lines) THEN NoTitle
    ELSE LET stripped == Strip(lines[k])
         IN  IF IsTitleLine(stripped)
             THEN Returned(Strip(SubSeq(stripped, 3, Len(stripped))))
             ELSE TitleLoop(lines, k + 1)

extract_title(md) == TitleLoop(Split(md, <<NL>>), 1)

(***************************************************************************)
(* extract_title as a state machine: it is called on a document of up to   *)
(* MaxLines lines.                                                         *)
(***************************************************************************)
TitleLines ==
    {<<>>,
     <<"a">>,
     <<"#", " ", "a">>,
     <<"#", " ", " ", " ", "a", " ", "b", " ", " ">>,
     <<" ", " ", "#", " ", "b">>,
     <<"#", "#", " ", "a">>,
     <<"#", "#", "#", " ", "a">>,
     <<"#", "a">>,
     <<"#">>,
     <<"#", " ", "#", " ", "c">>}

RECURSIVE TitleLineSeqs(_)
TitleLineSeqs(n) ==
    IF n = 1 THEN {<<l>> : l \in TitleLines}
    ELSE LET shorter == TitleLineSeqs(n - 1)
         IN  shorter \cup {Append(ls, l) : ls \in shorter, l \in TitleLines}

TitleDocuments == {JoinWith(ls, <<NL>>) : ls \in TitleLineSeqs(MaxLines)}

InitTitle ==
    /\ markdown \in TitleDocuments
    /\ blocks = <<>>
    /\ doc_children = <<>>
    /\ html = Pending
    /\ title = Pending
    /\ step = "title"
    /\ tree = LeafNode(None, None, None)
    /\ rendered = Pending
    /\ attrs = Pending
    /\ old_nodes = <<>>
    /\ delimiter = <<>>
    /\ text_type = TEXT
    /\ new_nodes = Pending
    /\ text = <<>>
    /\ nodes = <<>>
    /\ stage = "idle"
    /\ block = <<>>
    /\ block_type = "none"

\* title = extract_title(markdown)
ExtractTitle ==
    /\ step = "title"
    /\ title' = extract_title(markdown)
    /\ step' = "titled"
    /\ UNCHANGED <<markdown, blocks, doc_children, html, htmlVars, splitVars,
                   lexVars, blockVars>>

NextTitle == ExtractTitle

SpecTitle == InitTitle /\ [][NextTitle]_vars

(***************************************************************************)
(* Claims about the HTML node model.                                       *)
(***************************************************************************)
\* Length of parts[1] .. parts[i] together.
RECURSIVE LenUpTo(_, _)
LenUpTo(parts, i) ==
    IF i = 0 THEN 0 ELSE LenUpTo(parts, i - 1) + Len(parts[i])

\* r is parts[1], parts[2], ... laid end to end, stated by position.
IsConcatOf(r, parts) ==
    /\ Len(r) = LenUpTo(parts, Len(parts))
    /\ \A i \in 1..Len(parts) :
          SubSeq(r, LenUpTo(parts, i - 1) + 1, LenUpTo(parts, i)) = parts[i]

\* One ' key="value"' per attribute, in insertion order.
AttrParts(props) ==
    IF IsNone(props) THEN <<>>
    ELSE [i \in 1..Len(Get(props)) |->
            <<" ">> \o Get(props)[i].key \o <<"=", "\"">>
            \o Get(props)[i].value \o <<"\"">>]

\* What a child contributes to its parent's rendering.
ChildPart(child) ==
    IF child.kind = "leaf" /\ IsNone(child.tag) /\ ~IsNone(child.value)
    THEN Get(child.value)
    ELSE to_html(child).out

RendersAll(cs) == \A i \in 1..Len(cs) : to_html(cs[i]).status = "returned"

\* C1: a branch with a tag and a list of children that all render is rendered
\* as '<tag' + attributes + '>' + its children's renderings in child order +
\* '</tag>', at every depth of the tree; an untagged leaf child contributes its
\* raw value.
C1_BranchRender ==
    rendered.status # "pending" =>
        \A s \in Subtrees(tree) :
            (/\ s.kind = "parent"
             /\ ~IsNone(s.tag)
             /\ ~IsNone(s.children)
             /\ RendersAll(Get(s.children)))
            => LET r == IF s = tree THEN rendered ELSE to_html(s)
                   cs == Get(s.children)
               IN  /\ r.status = "returned"
                   /\ IsConcatOf(r.out,
                         << <<"<">> \o Get(s.tag) >>
                         \o AttrParts(s.props)
                         \o << <<">">> >>
                         \o [i \in 1..Len(cs) |-> ChildPart(cs[i])]
                         \o << <<"<", "/">> \o Get(s.tag) \o <<">">> >>)

\* C1 witness: a rendered branch with attributes, two children, one of them an
\* untagged leaf, the other a branch with a child of its own.
C1_Witness ==
    /\ rendered.status = "returned"
    /\ tree.kind = "parent"
    /\ ~IsNone(tree.props)
    /\ Len(Get(tree.children)) = 2
    /\ Get(tree.children)[1].kind = "parent"
    /\ Depth(tree) = 2
    /\ Get(tree.children)[2] = LeafNode(None, Some(<<"x">>), None)

\* C2 (as amended): a leaf with no tag and a non-null value renders as its raw
\* value; a leaf with no tag and a null value raises; an 'img' leaf renders as
\* '<img' + attributes + ' />' whatever its value; a leaf with another tag and
\* a non-null value renders as '<tag' + attributes + '>' + value + '</tag>'.
C2_LeafRenderAmended ==
    (rendered.status # "pending" /\ tree.kind = "leaf") =>
        /\ (IsNone(tree.tag) /\ ~IsNone(tree.value))
              => rendered = Returned(Get(tree.value))
        /\ (IsNone(tree.tag) /\ IsNone(tree.value))
              => rendered.status = "raised"
        /\ tree.tag = Some(IMG)
              => /\ rendered.status = "returned"
                 /\ IsConcatOf(rendered.out,
                       << <<"<", "i", "m", "g">> >> \o AttrParts(tree.props)
                       \o << <<" ", "/", ">">> >>)
        /\ (~IsNone(tree.tag) /\ tree.tag # Some(IMG) /\ ~IsNone(tree.value))
              => /\ rendered.status = "returned"
                 /\ IsConcatOf(rendered.out,
                       << <<"<">> \o Get(tree.tag) >> \o AttrParts(tree.props)
                       \o << <<">">>, Get(tree.value),
                             <<"<", "/">> \o Get(tree.tag) \o <<">">> >>)

\* C2 witness: an untagged leaf with attributes and no value has been rendered.
C2_Witness ==
    /\ rendered.status = "raised"
    /\ tree.kind = "leaf"
    /\ IsNone(tree.tag)
    /\ IsNone(tree.value)
    /\ tree.props = Some(<<HREF, TARGET>>)

\* C2 as stated: every leaf with no tag, whatever its value, returns its raw
\* value (and the 'img' and tagged forms are as above).
C2_LeafRenderAsStated ==
    (rendered.status # "pending" /\ tree.kind = "leaf") =>
        /\ IsNone(tree.tag)
              => /\ rendered.status = "returned"
                 /\ ~IsNone(tree.value) => rendered.out = Get(tree.value)
        /\ tree.tag = Some(IMG)
              => /\ rendered.status = "returned"
                 /\ IsConcatOf(rendered.out,
                       << <<"<", "i", "m", "g">> >> \o AttrParts(tree.props)
                       \o << <<" ", "/", ">">> >>)
        /\ (~IsNone(tree.tag) /\ tree.tag # Some(IMG) /\ ~IsNone(tree.value))
              => /\ rendered.status = "returned"
                 /\ IsConcatOf(rendered.out,
                       << <<"<">> \o Get(tree.tag) >> \o AttrParts(tree.props)
                       \o << <<">">>, Get(tree.value),
                             <<"<", "/">> \o Get(tree.tag) \o <<">">> >>)

\* A node that cannot be rendered whatever is below it: a leaf that is not an
\* 'img' and has no value, a branch without a tag or without a children list.
FailsItself(s) ==
    IF s.kind = "leaf"
    THEN IsNone(s.value) /\ s.tag # Some(IMG)
    ELSE IsNone(s.tag) \/ IsNone(s.children)

\* The error cases the claim lists: the leaf case only for a leaf with a tag.
FailsAsStated(s) ==
    IF s.kind = "leaf"
    THEN ~IsNone(s.tag) /\ s.tag # Some(IMG) /\ IsNone(s.value)
    ELSE IsNone(s.tag) \/ IsNone(s.children)

\* C3 (as amended): rendering raises ValueError exactly when the node or one
\* of its descendants is a leaf that is not 'img' (tagged or not) with a null
\* value, a branch with a null tag or a branch with a null children list; a
\* tagged branch with an empty children list renders as '<tag' + attributes +
\* '></tag>'.
C3_RenderErrorsAmended ==
    rendered.status # "pending" =>
        /\ rendered.status = "raised"
              <=> \E s \in Subtrees(tree) : FailsItself(s)
        /\ (tree.kind = "parent" /\ ~IsNone(tree.tag)
            /\ tree.children = Some(<<>>))
              => /\ rendered.status = "returned"
                 /\ IsConcatOf(rendered.out,
                       << <<"<">> \o Get(tree.tag) >> \o AttrParts(tree.props)
                       \o << <<">">>,
                             <<"<", "/">> \o Get(tree.tag) \o <<">">> >>)

\* C3 witness: the render of a well-formed root raised because of a leaf two
\* levels down.
C3_Witness ==
    /\ rendered = Raised("LeafNode must have a value.")
    /\ tree.kind = "parent"
    /\ ~FailsItself(tree)
    /\ Depth(tree) = 2
    /\ \A c \in Subtrees(tree) : c.kind = "parent" => ~FailsItself(c)

\* C3 as stated: the same with the leaf case restricted to leaves with a tag.
C3_RenderErrorsAsStated ==
    rendered.status # "pending" =>
        (rendered.status = "raised"
            <=> \E s \in Subtrees(tree) : FailsAsStated(s))

\* C4: props_to_html returns one ' key="value"' per attribute, in insertion
\* order, and the empty string for a null or empty mapping.
C4_PropsInInsertionOrder ==
    attrs.status = "returned" =>
        /\ IsConcatOf(attrs.out, AttrParts(tree.props))
        /\ (IsNone(tree.props) \/ tree.props = Some(<<>>)) => attrs.out = <<>>

\* C4 witness: attributes inserted as (target, href), not in alphabetical
\* order, have been rendered.
C4_Witness ==
    /\ attrs.status = "returned"
    /\ tree.props = Some(<<TARGET, HREF>>)
    /\ attrs.out # <<>>

(***************************************************************************)
(* Claims about split_nodes_delimiter.                                     *)
(***************************************************************************)
NonEmptyUpTo(parts, k) == Cardinality({i \in 1..k : parts[i] # <<>>})

\* The position in parts of its j-th non-empty part.
NthNonEmpty(parts, j) ==
    CHOOSE k \in 1..Len(parts) :
        parts[k] # <<>> /\ NonEmptyUpTo(parts, k) = j

\* One span per non-empty part, in the order of the parts: TEXT for a part at
\* an even position counted from 0, the target type for one at an odd position.
SpansOfParts(parts, type) ==
    [j \in 1..NonEmptyUpTo(parts, Len(parts)) |->
        LET k == NthNonEmpty(parts, j)
        IN  [text |-> parts[k],
             text_type |-> IF (k - 1) % 2 = 0 THEN TEXT ELSE type,
             url |-> None]]

\* What one input span is replaced by.
SpansOfNode(node, d, type) ==
    IF node.text_type # TEXT \/ ~Contains(node.text, d)
    THEN <<node>>
    ELSE SpansOfParts(Split(node.text, d), type)

\* C5: when split_nodes_delimiter returns, every TEXT span that holds the
\* delimiter is replaced, in place, by one span per non-empty part of its text:
\* parts at even 0-based positions as TEXT spans, parts at odd positions as
\* spans of the target type, left to right, empty parts dropped.
C5_PartsBecomeSpans ==
    new_nodes.status = "returned" =>
        IsConcatOf(new_nodes.out,
                   [i \in 1..Len(old_nodes) |->
                       SpansOfNode(old_nodes[i], delimiter, text_type)])

\* C5 witness: a single TEXT span was split into five parts, with a leading
\* delimiter, a non-empty delimited part and adjacent delimiters after it.
C5_Witness ==
    /\ new_nodes.status = "returned"
    /\ Len(old_nodes) = 1
    /\ old_nodes[1].text_type = TEXT
    /\ LET parts == Split(old_nodes[1].text, delimiter)
       IN  /\ Len(parts) = 5
           /\ parts[1] = <<>>
           /\ parts[2] # <<>>
           /\ parts[4] = <<>>
    /\ Len(new_nodes.out) = 1

UnclosedIn(node, d) ==
    /\ node.text_type = TEXT
    /\ Contains(node.text, d)
    /\ Len(Split(node.text, d)) % 2 = 0

\* C6: split_nodes_delimiter raises, naming the delimiter, exactly when some
\* TEXT input span holds the delimiter and splits on it into an even number of
\* parts; otherwise it returns a list of spans.
C6_RaisesIffUnclosed ==
    new_nodes.status # "pending" =>
        /\ new_nodes.status = "raised"
              <=> \E i \in 1..Len(old_nodes) : UnclosedIn(old_nodes[i], delimiter)
        /\ new_nodes.status = "raised" => new_nodes.out = delimiter
        /\ new_nodes.status \in {"raised", "returned"}

\* C6 witness: the call raised for its second span, after passing a typed span
\* in which the same delimiter is left open.
C6_Witness ==
    /\ new_nodes.status = "raised"
    /\ Len(old_nodes) = 2
    /\ old_nodes[1].text_type # TEXT
    /\ Len(Split(old_nodes[1].text, delimiter)) = 2
    /\ UnclosedIn(old_nodes[2], delimiter)

(***************************************************************************)
(* Claims about text_to_textnodes.                                         *)
(***************************************************************************)
\* The type the pass that ends in stage `to` produces.
PassTarget(to) ==
    CASE to = "bold" -> BOLD
      [] to = "italic" -> ITALIC
      [] to = "code" -> CODE
      [] to = "image" -> IMAGE
      [] to = "done" -> LINK
      [] OTHER -> TEXT

TypedSpans(spans) == SelectSeq(spans, LAMBDA n : n.text_type # TEXT)

EarlierSpans(spans, target) ==
    SelectSeq(spans, LAMBDA n : n.text_type \notin {TEXT, target})

HasBracketPattern(s) ==
    \E i \in 1..Len(s) : \E j \in (i + 1)..Len(s) : \E k \in (j + 2)..Len(s) :
        /\ s[i] = "[" /\ s[j] = "]" /\ s[j + 1] = "(" /\ s[k] = ")"
        /\ \A m \in (i + 1)..(j - 1) : s[m] \notin {"[", "]"}
        /\ \A m \in (j + 2)..(k - 1) : s[m] \notin {"(", ")"}

\* C7: a pass that completes leaves every span typed by an earlier pass as it
\* is (type, text, url) and in the same order among the typed spans: the spans
\* of the new list that are neither TEXT nor of the pass's own type are exactly
\* the typed spans of the old list.
C7_TypedSpansUntouched ==
    [][stage' # "raised" =>
        EarlierSpans(nodes', PassTarget(stage')) = TypedSpans(nodes)]_vars

\* C7 witness: the lexer returned a bold span whose text holds an open italic
\* delimiter and a link pattern.
C7_Witness ==
    /\ stage = "done"
    /\ \E i \in 1..Len(nodes) :
          /\ nodes[i].text_type = BOLD
          /\ Len(Split(nodes[i].text, <<"_">>)) = 2
          /\ HasBracketPattern(nodes[i].text)

DelimiterFree(s) ==
    /\ ~\E i \in 1..(Len(s) - 1) : s[i] = "*" /\ s[i + 1] = "*"
    /\ ~\E i \in 1..Len(s) : s[i] \in {"_", BACKTICK}

Finished == stage \in {"done", "raised"}

\* C8 (as amended): for a text with no '**', no '_', no backtick and no
\* substring of the form [..](..), text_to_textnodes returns a single TEXT span
\* whose text is the input.
C8_PlainTextAmended ==
    (Finished /\ DelimiterFree(text) /\ ~HasBracketPattern(text)) =>
        /\ stage = "done"
        /\ nodes = <<[text |-> text, text_type |-> TEXT, url |-> None]>>

\* C8 witness: a text with a lone '*', a '!' and a '[' came back as one span.
C8_Witness ==
    /\ stage = "done"
    /\ DelimiterFree(text)
    /\ ~HasBracketPattern(text)
    /\ \E i \in 1..Len(text) : text[i] = "*"
    /\ \E i \in 1..Len(text) : text[i] = "!"
    /\ \E i \in 1..Len(text) : text[i] = "["
    /\ Len(nodes) = 1

\* C8 as stated: the same for every text with no '**', '_' or backtick.
C8_PlainTextAsStated ==
    (Finished /\ DelimiterFree(text)) =>
        /\ stage = "done"
        /\ nodes = <<[text |-> text, text_type |-> TEXT, url |-> None]>>

\* s from position `from` on is '[' a '](' u ')' with no bracket in a and no
\* parenthesis in u, the ']' being at position j.
IsPatternFrom(s, from, j) ==
    /\ from >= 1 /\ from < j /\ j + 2 <= Len(s)
    /\ s[from] = "[" /\ s[j] = "]" /\ s[j + 1] = "(" /\ s[Len(s)] = ")"
    /\ \A m \in (from + 1)..(j - 1) : s[m] \notin {"[", "]"}
    /\ \A m \in (j + 2)..(Len(s) - 1) : s[m] \notin {"(", ")"}

\* The text is '![a](u)' and the lexer is done with it: it has returned the
\* one span Image(a, u).
ImageTextOutcome(needDelimiterFree) ==
    \A j \in 1..Len(text) :
        (/\ Len(text) >= 1 /\ text[1] = "!"
         /\ IsPatternFrom(text, 2, j)
         /\ (needDelimiterFree => DelimiterFree(text)))
        => /\ stage = "done"
           /\ nodes = <<[text |-> SubSeq(text, 3, j - 1),
                         text_type |-> IMAGE,
                         url |-> Some(SubSeq(text, j + 2, Len(text) - 1))]>>

\* The text is '[a](u)' and the lexer is done with it: it has returned the one
\* span Link(a, u).
LinkTextOutcome(needDelimiterFree) ==
    \A j \in 1..Len(text) :
        (/\ IsPatternFrom(text, 1, j)
         /\ (needDelimiterFree => DelimiterFree(text)))
        => /\ stage = "done"
           /\ nodes = <<[text |-> SubSeq(text, 2, j - 1),
                         text_type |-> LINK,
                         url |-> Some(SubSeq(text, j + 2, Len(text) - 1))]>>

\* C9 (as amended): for a bracket-free a and a parenthesis-free u that hold no
\* '**', '_' or backtick, text_to_textnodes('![a](u)') is the one span
\* Image(a, u) and text_to_textnodes('[a](u)') is the one span Link(a, u).
C9_ImageOrLinkAmended ==
    Finished => ImageTextOutcome(TRUE) /\ LinkTextOutcome(TRUE)

\* C9 witness: '![a](u)' with a parenthesis in a and a bracket in u came back
\* as one image span.
C9_Witness ==
    /\ stage = "done"
    /\ Len(nodes) = 1
    /\ nodes[1].text_type = IMAGE
    /\ \E i \in 1..Len(nodes[1].text) : nodes[1].text[i] = "("
    /\ \E i \in 1..Len(Get(nodes[1].url)) : Get(nodes[1].url)[i] = "["
    /\ text = ImageMarkdown(nodes[1].text, Get(nodes[1].url))

\* C9 as stated: the same for every bracket-free a and parenthesis-free u.
C9_ImageOrLinkAsStated ==
    Finished => ImageTextOutcome(FALSE) /\ LinkTextOutcome(FALSE)

(***************************************************************************)
(* Claims about block_to_block_type.                                       *)
(***************************************************************************)
\* Where the first line of the block ends.
FirstLineEnd(b) ==
    IF \E i \in 1..Len(b) : b[i] = NL
    THEN (CHOOSE i \in 1..Len(b) :
             b[i] = NL /\ \A j \in 1..(i - 1) : b[j] # NL) - 1
    ELSE Len(b)

\* The first line of b begins with n '#' and then a space.
HashesThenSpace(b, n) ==
    /\ n + 1 <= FirstLineEnd(b)
    /\ \A i \in 1..n : b[i] = "#"
    /\ b[n + 1] = " "

\* C10: a block is classified as a heading exactly when its first line begins
\* with 1 to 6 '#' immediately followed by a space; a block that begins with
\* '#' otherwise (7 or more '#', or no space after the run) falls through the
\* later rules and is a paragraph.
C10_HeadingIffOneToSixHashes ==
    block_type # "none" =>
        /\ block_type = "heading" <=> \E n \in 1..6 : HashesThenSpace(block, n)
        /\ (block[1] = "#" /\ ~\E n \in 1..6 : HashesThenSpace(block, n))
              => block_type = "paragraph"

\* C10 witness: a block of two lines that begins with seven '#' and a space has
\* been classified, as a paragraph.
C10_Witness ==
    /\ block_type = "paragraph"
    /\ HashesThenSpace(block, 7)
    /\ FirstLineEnd(block) < Len(block)

\* The lines of the block, found by the positions of its newlines.
LineCount(b) == Cardinality({i \in 1..Len(b) : b[i] = NL}) + 1

\* Where line k (from 1) of b starts: after the (k-1)-th newline.
LineStart(b, k) ==
    IF k = 1 THEN 1
    ELSE (CHOOSE i \in 1..Len(b) :
             /\ b[i] = NL
             /\ Cardinality({j \in 1..i : b[j] = NL}) = k - 1) + 1

\* Line k of b begins with the number n written in decimal, '.' and a space.
LineNumbered(b, k, n) ==
    LET prefix == Decimal(n) \o <<".", " ">>
        from   == LineStart(b, k)
    IN  /\ from + Len(prefix) - 1 <= Len(b)
        /\ \A j \in 1..Len(prefix) : b[from + j - 1] = prefix[j]

\* Every line of b is numbered with its position, counted from 1.
SequentiallyNumbered(b) == \A k \in 1..LineCount(b) : LineNumbered(b, k, k)

\* Every line of b is numbered with some number.
EveryLineNumbered(b) ==
    \A k \in 1..LineCount(b) : \E n \in 1..9 : LineNumbered(b, k, n)

\* C11: a block is classified as an ordered list exactly when every line i
\* (from 0) starts with the literal prefix "<i+1>. "; a block whose lines are
\* all numbered but skip or repeat a number is classified as a paragraph, and
\* the classification does not fail.
C11_OrderedIffSequential ==
    block_type # "none" =>
        /\ block_type = "ordered_list" <=> SequentiallyNumbered(block)
        /\ (EveryLineNumbered(block) /\ ~SequentiallyNumbered(block))
              => block_type = "paragraph"

\* C11 witness: a block of two or more numbered lines that repeats or skips a
\* number has been classified, as a paragraph.
C11_Witness ==
    /\ block_type = "paragraph"
    /\ LineCount(block) >= 2
    /\ EveryLineNumbered(block)
    /\ LineNumbered(block, 1, 1)
    /\ ~LineNumbered(block, 2, 2)

\* The non-default block types whose condition holds on block b.
Holding(b) ==
    LET lines == Split(b, <<NL>>)
    IN  {t \in {"heading", "code", "unordered_list", "ordered_list", "quote"} :
            \/ t = "heading" /\ IsHeading(lines[1])
            \/ t = "code" /\ IsCode(b)
            \/ t = "unordered_list" /\ IsUnorderedList(lines)
            \/ t = "ordered_list" /\ IsOrderedList(lines)
            \/ t = "quote" /\ IsQuote(lines)}

\* C19: on every non-empty trimmed block at most one of the five non-default
\* conditions (heading, code, unordered list, ordered list, quote) holds; the
\* block gets the type of the one that holds, whatever the order of the rules,
\* and is a paragraph exactly when none holds.
C19_RulesExclusive ==
    block_type # "none" =>
        /\ Cardinality(Holding(block)) <= 1
        /\ Holding(block) # {} => block_type \in Holding(block)
        /\ block_type = "paragraph" <=> Holding(block) = {}

\* C19 witness: a block of several lines that starts like a heading and ends
\* with a fence has been classified by the one rule that holds on it.
C19_Witness ==
    /\ block_type = "heading"
    /\ Holding(block) = {"heading"}
    /\ LineCount(block) >= 2
    /\ EndsWith(block, FENCE)

(***************************************************************************)
(* Claims about the content a delimiter pass keeps.                        *)
(***************************************************************************)
\* s from position i on, without the occurrences of d met from left to right.
RECURSIVE WithoutFrom(_, _, _)
WithoutFrom(s, d, i) ==
    IF i > Len(s) THEN <<>>
    ELSE IF OccursAt(s, d, i) THEN WithoutFrom(s, d, i + Len(d))
    ELSE <<s[i]>> \o WithoutFrom(s, d, i + 1)

\* The texts of the spans from index k on, one after the other.
RECURSIVE TextsFrom(_, _)
TextsFrom(spans, k) ==
    IF k > Len(spans) THEN <<>>
    ELSE spans[k].text \o TextsFrom(spans, k + 1)

\* The input spans with the delimiter taken out of the TEXT spans only.
Undelimited(spans, d) ==
    [k \in 1..Len(spans) |->
        IF spans[k].text_type = TEXT
        THEN [spans[k] EXCEPT !.text = WithoutFrom(spans[k].text, d, 1)]
        ELSE spans[k]]

\* C20: when split_nodes_delimiter returns, the texts of the output spans, one
\* after the other, are the texts of the input spans with every occurrence of
\* the delimiter removed from the TEXT input spans only (nothing else is
\* lost, duplicated or reordered), and no TEXT output span contains the
\* delimiter.
C20_ContentConserved ==
    new_nodes.status = "returned" =>
        /\ TextsFrom(new_nodes.out, 1)
              = TextsFrom(Undelimited(old_nodes, delimiter), 1)
        /\ \A k \in 1..Len(new_nodes.out) :
              new_nodes.out[k].text_type = TEXT
                  => ~Contains(new_nodes.out[k].text, delimiter)

\* C20 witness: a pass with a delimiter of two characters has returned on a
\* typed span that holds the delimiter, followed by a TEXT span in which
\* occurrences of the delimiter overlap and of which one character is left.
C20_Witness ==
    /\ new_nodes.status = "returned"
    /\ Len(old_nodes) = 2
    /\ old_nodes[1].text_type # TEXT
    /\ Contains(old_nodes[1].text, delimiter)
    /\ old_nodes[2].text_type = TEXT
    /\ Len(delimiter) = 2
    /\ Contains(old_nodes[2].text, delimiter \o <<delimiter[1]>>)
    /\ Len(new_nodes.out) = 2
    /\ new_nodes.out[2] = TextNode(<<delimiter[1]>>, TEXT, None)

(***************************************************************************)
(* Claims about split_nodes_link.                                          *)
(***************************************************************************)
\* The walk over the link matches of s from left to right: i is where the
\* next match is looked for, from where the text not yet emitted starts.
RECURSIVE WalkLinks(_, _, _)
WalkLinks(s, i, from) ==
    IF i > Len(s)
    THEN (IF from <= Len(s)
          THEN <<TextNode(SubSeq(s, from, Len(s)), TEXT, None)>>
          ELSE <<>>)
    ELSE LET m == LinkPatternAt(s, i)
         IN  IF m.found
             THEN (IF from < i
                   THEN <<TextNode(SubSeq(s, from, i - 1), TEXT, None)>>
                   ELSE <<>>)
                  \o <<TextNode(m.group1, LINK, Some(m.group2))>>
                  \o WalkLinks(s, m.last + 1, m.last + 1)
             ELSE WalkLinks(s, i + 1, from)

\* The spans the walk gives for the text s; a text without a match, the
\* empty one included, stays the one TEXT span it was.
LinkWalk(s) ==
    IF s = <<>> THEN <<TextNode(s, TEXT, None)>> ELSE WalkLinks(s, 1, 1)

\* The markdown a span stands for: its text, or [text](url) for a link.
RECURSIVE Reconcatenated(_, _)
Reconcatenated(spans, k) ==
    IF k > Len(spans) THEN <<>>
    ELSE (IF spans[k].text_type = LINK
          THEN LinkMarkdown(spans[k].text, Get(spans[k].url))
          ELSE spans[k].text)
         \o Reconcatenated(spans, k + 1)

\* C16: split_nodes_link on a single TEXT span gives the walk over the link
\* matches from left to right (text before a match as a TEXT span, the match
\* as a LINK span, text after the last match as a TEXT span), so that a
\* [text](url) right after a '!' never becomes a LINK span, and putting the
\* output together again gives the input text.
C16_LinkWalkAsStated ==
    stage = "linked" =>
        /\ nodes = LinkWalk(text)
        /\ Reconcatenated(nodes, 1) = text

(***************************************************************************)
(* Claims about markdown_to_html_node.                                     *)
(***************************************************************************)
\* s has a character that is not whitespace.
HasText(s) == \E i \in 1..Len(s) : s[i] \notin Whitespace

\* s from its first to its last character that is not whitespace.
Trimmed(s) ==
    LET inked == {i \in 1..Len(s) : s[i] \notin Whitespace}
        first == CHOOSE i \in inked : \A j \in inked : i <= j
        last  == CHOOSE i \in inked : \A j \in inked : j <= i
    IN  IF inked = {} THEN <<>> ELSE SubSeq(s, first, last)

\* The segments of the document between blank-line separators that are not
\* empty after trimming, trimmed, in document order.
TrimmedSegments(md) ==
    LET kept == SelectSeq(Split(md, <<NL, NL>>), HasText)
    IN  [i \in 1..Len(kept) |-> Trimmed(kept[i])]

\* The tag of the node a block of the given classification is assembled to.
BlockTag(b) ==
    LET type == block_to_block_type(b)
    IN  IF type = "heading" THEN <<"h">> \o Decimal(HeadingLevel(b))
        ELSE IF type = "code" THEN PRE
        ELSE IF type = "unordered_list" THEN UL
        ELSE IF type = "ordered_list" THEN OL
        ELSE IF type = "quote" THEN BLOCKQUOTE
        ELSE P

\* markdown_to_html_node has returned (and its result may have been rendered).
DivReturned == step \in {"returned", "rendered"}

\* C12: markdown_to_html_node returns a branch tagged div whose children
\* correspond one to one, in document order, to the segments between blank-
\* line separators that are non-empty after trimming, each trimmed; a document
\* without such a segment (the empty one included) gives a div without
\* children.
C12_DivChildrenAreBlocks ==
    DivReturned =>
        /\ html.status = "returned"
        /\ html.out.kind = "parent"
        /\ html.out.tag = Some(DIV)
        /\ ~IsNone(html.out.children)
        /\ LET segments == TrimmedSegments(markdown)
               cs == Get(html.out.children)
           IN  /\ Len(cs) = Len(segments)
               /\ \A i \in 1..Len(cs) : cs[i].tag = Some(BlockTag(segments[i]))

\* C12 witness: a document with whitespace before its first block, more than
\* a blank line between its two blocks and whitespace after the last has been
\* converted to a div of two children with different tags.
C12_Witness ==
    /\ step = "returned"
    /\ markdown # <<>>
    /\ markdown[1] \in Whitespace
    /\ markdown[Len(markdown)] \in Whitespace
    /\ Len(Split(markdown, <<NL, NL>>)) > 2
    /\ Len(Get(html.out.children)) = 2
    /\ Get(html.out.children)[1].tag # Get(html.out.children)[2].tag

\* The text of block b from after its first newline to its last newline, the
\* last newline included: the lines between the first and the last line, each
\* followed by a newline.
InnerLines(b) ==
    LET breaks == {i \in 1..Len(b) : b[i] = NL}
        first  == CHOOSE i \in breaks : \A j \in breaks : i <= j
        last   == CHOOSE i \in breaks : \A j \in breaks : j <= i
    IN  SubSeq(b, first + 1, last)

\* The node of a fenced code block with the given content.
PreCode(content) ==
    ParentNode(Some(PRE),
               Some(<<LeafNode(Some(CODE_TAG), Some(content), None)>>), None)

\* C13: a fenced code block with one or more lines between its first and its
\* last line is assembled to a branch tagged pre with one child, a leaf tagged
\* code whose value is these lines joined by newlines and followed by exactly
\* one newline; the content is not lexed, so that assembling a code block
\* raises nothing, whatever delimiter it leaves open, and the rendering of
\* such a document wraps the value in <pre><code>...</code></pre>.
C13_FencedCodeContent ==
    /\ \A i \in 1..Len(doc_children) :
          (block_to_block_type(blocks[i]) = "code"
              /\ LineCount(blocks[i]) >= 3)
             => doc_children[i] = PreCode(InnerLines(blocks[i]))
    /\ step = "raised"
          => block_to_block_type(blocks[Len(doc_children) + 1]) # "code"
    /\ (step = "rendered" /\ Len(blocks) = 1
           /\ block_to_block_type(blocks[1]) = "code"
           /\ LineCount(blocks[1]) >= 3)
          => rendered = Returned(
                 <<"<", "d", "i", "v", ">", "<", "p", "r", "e", ">",
                   "<", "c", "o", "d", "e", ">">>
                 \o InnerLines(blocks[1])
                 \o <<"<", "/", "c", "o", "d", "e", ">",
                      "<", "/", "p", "r", "e", ">",
                      "<", "/", "d", "i", "v", ">">>)

\* C13 witness: a document of one fenced code block with two content lines,
\* in which a bold delimiter is left open, has been converted and rendered.
C13_Witness ==
    /\ step = "rendered"
    /\ Len(blocks) = 1
    /\ block_to_block_type(blocks[1]) = "code"
    /\ LineCount(blocks[1]) = 4
    /\ Len(Split(blocks[1], <<"*", "*">>)) = 2
    /\ Get(Get(doc_children[1].children)[1].value)
          = <<"a", NL, "*", "*", "b", NL>>

\* Line k (from 1) of block b, without its newline.
LineOf(b, k) ==
    LET from == LineStart(b, k)
        to   == IF k < LineCount(b) THEN LineStart(b, k + 1) - 2 ELSE Len(b)
    IN  SubSeq(b, from, to)

\* The number of '#' block b begins with.
LeadingHashes(b) ==
    CHOOSE n \in 0..Len(b) :
        /\ \A i \in 1..n : b[i] = "#"
        /\ n < Len(b) => b[n + 1] # "#"

\* The texts handed to the lexer for block b: the heading remainder, every
\* list item, the joined quote, the joined paragraph; none for fenced code.
LexedTexts(b) ==
    LET type == block_to_block_type(b)
        n    == LineCount(b)
    IN  IF type = "heading"
        THEN {Trimmed(SubSeq(b, LeadingHashes(b) + 1, Len(b)))}
        ELSE IF type = "code" THEN {}
        ELSE IF type = "unordered_list"
        THEN {SubSeq(LineOf(b, k), 3, Len(LineOf(b, k))) : k \in 1..n}
        ELSE IF type = "ordered_list"
        THEN {SubSeq(LineOf(b, k), Len(Decimal(k)) + 3, Len(LineOf(b, k))) :
                 k \in 1..n}
        ELSE IF type = "quote"
        THEN {JoinWith([k \in 1..n |-> Trimmed(Tail(LineOf(b, k)))], <<" ">>)}
        ELSE {[i \in 1..Len(b) |-> IF b[i] = NL THEN " " ELSE b[i]]}

\* A text lexed for block b leaves an inline delimiter open.
HasUnterminated(b) ==
    \E t \in LexedTexts(b) : text_to_textnodes(t).status = "raised"

\* markdown_to_html_node has ended, by an exception or by returning.
DocEnded == step \in {"raised", "returned", "rendered"}

\* C17: when the text lexed for a block that is not fenced code (heading
\* remainder, list item, joined quote, joined paragraph) leaves an inline
\* delimiter open, the whole call fails with the unclosed-delimiter error,
\* wherever the block is in the document; the error is not swallowed, no div
\* is returned and the blocks after the failing one are not assembled.
C17_UnterminatedFailsCall ==
    DocEnded =>
        LET failing == {i \in 1..Len(blocks) : HasUnterminated(blocks[i])}
        IN  /\ failing # {} <=> step = "raised"
            /\ failing # {} =>
                  /\ html.status = "raised"
                  /\ html.msg = "Invalid markdown syntax: unclosed delimiter"
                  /\ html.out \in Delimiters
                  /\ rendered = Pending
                  /\ \A i \in failing : Len(doc_children) < i
                  /\ Len(doc_children) + 1 \in failing

\* C17 witness: in a document of two blocks the first, a list, leaves a
\* delimiter open in its second item; the call has failed and the second
\* block, which lexes well, has not been assembled.
C17_Witness ==
    /\ step = "raised"
    /\ Len(blocks) = 2
    /\ doc_children = <<>>
    /\ block_to_block_type(blocks[1]) = "unordered_list"
    /\ text_to_textnodes(SubSeq(LineOf(blocks[1], 1), 3,
                                Len(LineOf(blocks[1], 1)))).status = "returned"
    /\ ~HasUnterminated(blocks[2])
    /\ block_to_block_type(blocks[2]) # "code"

\* What to_html requires of a node: a branch has a tag and a children list, a
\* leaf that is not tagged img has a value.
WellFormed(node) ==
    IF node.kind = "parent"
    THEN ~IsNone(node.tag) /\ ~IsNone(node.children)
    ELSE node.tag = Some(IMG) \/ ~IsNone(node.value)

HeadingTags == {<<"h">> \o Decimal(n) : n \in 1..6}

\* C18: the tree markdown_to_html_node returns always renders: every branch in
\* it has a tag and a children list, every leaf not tagged img has a value,
\* the node of a heading block is tagged h1 to h6, and text_node_to_html_node
\* handles every span type the lexer produces.
C18_ReturnedTreeRenders ==
    /\ DivReturned =>
          /\ \A n \in Subtrees(html.out) : WellFormed(n)
          /\ \A i \in 1..Len(blocks) :
                block_to_block_type(blocks[i]) = "heading"
                    => /\ doc_children[i].tag # None
                       /\ Get(doc_children[i].tag) \in HeadingTags
    /\ step = "rendered" => rendered.status = "returned"
    /\ html.msg # "Unsupported TextType"

\* C18 witness: a document with a paragraph that lexes to no span at all and
\* a block with an image has been converted, and its tree rendered.
C18_Witness ==
    /\ step = "rendered"
    /\ rendered.status = "returned"
    /\ \E n \in Subtrees(html.out) :
          n.kind = "parent" /\ n.tag = Some(P) /\ n.children = Some(<<>>)
    /\ \E n \in Subtrees(html.out) : n.kind = "leaf" /\ n.tag = Some(IMG)

(***************************************************************************)
(* Claims about extract_title.                                             *)
(***************************************************************************)
\* Line k of the document, trimmed, is a single '#' followed by a space.
IsH1Line(md, k) ==
    LET line == Trimmed(LineOf(md, k))
    IN  Len(line) >= 2 /\ line[1] = "#" /\ line[2] = " "

\* The lines of the document that are level-1 headings.
H1Lines(md) == {k \in 1..LineCount(md) : IsH1Line(md, k)}

\* The trimmed text after the marker of line k.
H1Text(md, k) ==
    LET line == Trimmed(LineOf(md, k))
    IN  Trimmed(SubSeq(line, 3, Len(line)))

\* C14: extract_title returns the trimmed text after the marker of the first
\* line whose stripped form is a single '#' followed by a space; earlier lines
\* that are headings of level 2 or more, or that have no space after the '#',
\* are skipped, and the whitespace around the title is removed.
C14_TitleIsFirstH1 ==
    (step = "titled" /\ H1Lines(markdown) # {}) =>
        LET first == CHOOSE k \in H1Lines(markdown) :
                         \A j \in H1Lines(markdown) : k <= j
        IN  title = Returned(H1Text(markdown, first))

\* C14 witness: the title has been taken from the third line, written with
\* whitespace around it, after a level-2 heading and a '#' without a space.
C14_Witness ==
    /\ step = "titled"
    /\ title.status = "returned"
    /\ LineCount(markdown) = 3
    /\ H1Lines(markdown) = {3}
    /\ StartsWith(LineOf(markdown, 1), <<"#">>)
    /\ StartsWith(LineOf(markdown, 2), <<"#">>)
    /\ LineOf(markdown, 1) # LineOf(markdown, 2)
    /\ Len(title.out) + 2 < Len(LineOf(markdown, 3))

\* C15: extract_title fails, with the message 'No h1 header found in
\* markdown', exactly when no line of the document is a level-1 heading; the
\* empty document and documents of level-2+ headings and paragraphs only are
\* among these, and no default title is returned then.
C15_NotFoundIffNoH1 ==
    step = "titled" =>
        /\ title.status = "raised" <=> H1Lines(markdown) = {}
        /\ H1Lines(markdown) = {}
              => title = Raised("No h1 header found in markdown")
        /\ title.status \in {"raised", "returned"}

\* C15 witness: extract_title has failed on a document of a level-2 heading,
\* a level-3 heading and a paragraph.
C15_Witness ==
    /\ step = "titled"
    /\ title.status = "raised"
    /\ LineCount(markdown) = 3
    /\ LineOf(markdown, 1) = <<"#", "#", " ", "a">>
    /\ LineOf(markdown, 2) = <<"#", "#", "#", " ", "a">>
    /\ LineOf(markdown, 3) = <<"a">>

====
